---- MODULE Spec2Model ----
(***************************************************************************)
(* Model of ptt_gatt.py: the Anytone/ELET PTT Bluetooth controller.        *)
(*                                                                         *)
(* One asyncio task runs main(): it resolves the device (find_ptt_device), *)
(* runs a session (connect_and_listen) and sleeps before the next          *)
(* iteration.  The transport calls handle_notify while a subscribed        *)
(* session is being monitored.  The operator's Ctrl+C is delivered by      *)
(* asyncio.run either as a cancellation of the main task or as a           *)
(* KeyboardInterrupt that reaches the __main__ block.                      *)
(*                                                                         *)
(* Text (payloads, addresses, configuration values) is a sequence of       *)
(* character codes, so that decode/hex/upper/strip/startswith are computed *)
(* as the code computes them.                                              *)
(***************************************************************************)
EXTENDS Integers, Sequences, FiniteSets, TLC

\* ------------------------------------------------------------------ bounds
\* Most devices one scan reports.
MaxDevices == 2
\* Most key-down actions the handler issues in one run of the model.
MaxKeyDowns == 2
\* Most interrupt signals (Ctrl+C) the operator sends.
MaxSigints == 2

\* -------------------------------------------------------------------- text
\* "ELET1", "ELET2", "BATT" (handle_notify's prefixes) as character codes.
ELET1 == <<69, 76, 69, 84, 49>>
ELET2 == <<69, 76, 69, 84, 50>>
BATT == <<66, 65, 84, 84>>

\* str.startswith
StartsWith(s, prefix) ==
    /\ Len(s) >= Len(prefix)
    /\ SubSeq(s, 1, Len(prefix)) = prefix

\* One hexadecimal digit of bytes.hex(): '0'..'9' or 'a'..'f'.
HexDigit(n) == IF n < 10 THEN 48 + n ELSE 87 + n

\* bytes.hex(): two lower-case hexadecimal digits per byte.
RECURSIVE Hex(_)
Hex(data) ==
    IF data = <<>> THEN <<>>
    ELSE <<HexDigit(Head(data) \div 16), HexDigit(Head(data) % 16)>> \o Hex(Tail(data))

\* bytes.decode('ascii') succeeds exactly when every byte is below 128.
IsAscii(data) == \A i \in 1..Len(data) : data[i] < 128

\* Mutant of Message: decoding that drops the bytes it cannot decode
\* (errors='ignore') instead of falling back to the hex form.
MessageLossy(data) == SelectSeq(data, LAMBDA b : b < 128)

\* The message handle_notify classifies: the ASCII text, or the hex form when
\* decoding raises UnicodeDecodeError.
Message(data) == IF IsAscii(data) THEN data ELSE Hex(data)

\* str.upper() of one character code.
UpperChar(c) == IF c >= 97 /\ c <= 122 THEN c - 32 ELSE c

\* str.upper()
Upper(s) == [i \in 1..Len(s) |-> UpperChar(s[i])]

\* Whitespace removed by str.strip(): space, tab, newline.
IsSpace(c) == c \in {32, 9, 10}

\* str.strip()
RECURSIVE LStrip(_)
LStrip(s) == IF s # <<>> /\ IsSpace(Head(s)) THEN LStrip(Tail(s)) ELSE s

RECURSIVE RStrip(_)
RStrip(s) ==
    IF s # <<>> /\ IsSpace(s[Len(s)]) THEN RStrip(SubSeq(s, 1, Len(s) - 1)) ELSE s

Strip(s) == RStrip(LStrip(s))

\* ------------------------------------------------------------------ inputs
\* Notification payloads the device (or noise) may deliver.
Payloads ==
    { <<>>,                          \* empty
      <<69, 76, 69, 84>>,            \* "ELET"    4 bytes, too short
      ELET1,                         \* "ELET1"   press
      <<69, 76, 69, 84, 49, 88>>,    \* "ELET1X"  press (6 bytes)
      ELET2,                         \* "ELET2"   release
      <<66, 65, 84, 84, 100>>,       \* "BATTd"   battery
      <<72, 69, 76, 76, 79>>,        \* "HELLO"   other prefix
      <<69, 76, 69, 84, 49, 255>>,   \* "ELET1" + 0xff: not ASCII
      <<255, 69, 76, 69, 84, 50>> }  \* 0xff + "ELET2": not ASCII

\* Device addresses a scan reports: "A1", "B2", "C3".
DevAddrs == { <<65, 49>>, <<66, 50>>, <<67, 51>> }

\* Advertised names: None, "ELET-PTT", "ELET-PTT-01", "Speaker".
DevNames == { "None", "ELET-PTT", "ELET-PTT-01", "Speaker" }

\* device.name and "ELET-PTT" in device.name
NameMatches(name) == name \in { "ELET-PTT", "ELET-PTT-01" }

Devices == [address : DevAddrs, name : DevNames]

\* Scan results: up to MaxDevices devices with pairwise different addresses.
ScanResults ==
    { s \in UNION { [1..n -> Devices] : n \in 0..MaxDevices } :
        \A i, j \in 1..Len(s) : i # j => s[i].address # s[j].address }

\* The addresses of a scan, in scan order (all the configured branch of
\* find_ptt_device reads of a device).
AddressScans ==
    { s \in UNION { [1..n -> DevAddrs] : n \in 0..MaxDevices } :
        \A i, j \in 1..Len(s) : i # j => s[i] # s[j] }

\* mac_address values of config.ini at startup: "", " ", "a1", "B2", " C3".
FileMacs == { <<>>, <<32>>, <<97, 49>>, <<66, 50>>, <<32, 67, 51>> }

\* What the operator types at the "Enter number: " prompt: a decimal number
\* or text that int() rejects.
Choices ==
    [numeric : {TRUE}, value : (-1)..(MaxDevices + 1)]
        \cup [numeric : {FALSE}, value : {0}]

\* ------------------------------------------------------------------- state
VARIABLES
    pc,              \* where the main task stands (its pending await), or "run_ended"/"exited"
    button_pressed,  \* global button_pressed (KeyHoldFlag)
    should_run,      \* global should_run
    PTT_MAC,         \* global PTT_MAC; <<>> stands for None / empty
    cfgMac,          \* config['PTT']['mac_address'] in memory
    fileMac,         \* mac_address value stored in config.ini
    fileExists,      \* config.ini exists
    fileWrites,      \* times config.ini has been written by this process
    ptt_devices,     \* find_ptt_device's candidate addresses while the prompt is open
    mac_address,     \* the address main handed to connect_and_listen
    linkUp,          \* client.is_connected
    subscribed,      \* handle_notify is registered with the transport
    keyHeld,         \* the operating system sees the key down
    keyDowns,        \* key-down actions performed
    keyUps,          \* key-up actions performed
    anyKeyFail,      \* some pyautogui call has raised
    runner,          \* how asyncio.run delivers the first Ctrl+C
    hnd,             \* where a handle_notify call running outside the event loop stands
    sigints,         \* interrupt signals received
    kbi,             \* a KeyboardInterrupt is on its way to the __main__ block
    cancelPending,   \* task.cancel() was requested while input() was blocking
    ev               \* what the last step did (observation only)

vars ==
    << pc, button_pressed, should_run, PTT_MAC, cfgMac, fileMac, fileExists,
       fileWrites, ptt_devices, mac_address, linkUp, subscribed, keyHeld,
       keyDowns, keyUps, anyKeyFail, runner, hnd, sigints, kbi, cancelPending, ev >>

keyVars == << button_pressed, keyHeld, keyDowns, keyUps, anyKeyFail >>
cfgVars == << PTT_MAC, cfgMac, fileMac, fileExists, fileWrites >>
sigVars == << sigints, kbi, cancelPending >>
linkVars == << linkUp, subscribed >>
envVars == << runner, hnd >>

\* asyncio.run before Python 3.11 lets every Ctrl+C raise KeyboardInterrupt in
\* the event loop ("raise"); from 3.11 on the first Ctrl+C cancels the main
\* task instead ("cancel").
Runners == { "cancel", "raise" }

\* The awaits of the main task.
AwaitPcs ==
    { "scan", "connect", "subscribe", "monitor", "unsub",
      "sleep_reconnect", "sleep_scan", "sleep_error" }

NoEvent == [op |-> "none"]

Init ==
    /\ pc = "start"
    /\ button_pressed = FALSE
    /\ should_run = TRUE
    /\ PTT_MAC = <<>>
    /\ cfgMac = <<>>
    /\ fileExists \in BOOLEAN
    /\ fileMac \in FileMacs
    /\ (~fileExists => fileMac = <<>>)
    /\ fileWrites = 0
    /\ ptt_devices = <<>>
    /\ mac_address = <<>>
    /\ linkUp = FALSE
    /\ subscribed = FALSE
    /\ keyHeld = FALSE
    /\ keyDowns = 0
    /\ keyUps = 0
    /\ anyKeyFail = FALSE
    /\ runner \in Runners
    /\ hnd = "idle"
    /\ sigints = 0
    /\ kbi = FALSE
    /\ cancelPending = FALSE
    /\ ev = NoEvent

\* ---------------------------------------------------------- key-state logic
\* Mutant of HandleNotify: the press and release branches without their
\* "if not button_pressed" / "if button_pressed" guards.
HandleNotifyNoGuard(pressed, data, ok) ==
    LET same == [pressed |-> pressed, act |-> "none", raised |-> FALSE]
        fail == [pressed |-> pressed, act |-> "none", raised |-> TRUE]
    IN  IF Len(data) < 5 THEN same
        ELSE IF StartsWith(Message(data), ELET1) THEN
                 IF ok THEN [pressed |-> TRUE, act |-> "keyDown", raised |-> FALSE]
                 ELSE fail
        ELSE IF StartsWith(Message(data), ELET2) THEN
                 IF ok THEN [pressed |-> FALSE, act |-> "keyUp", raised |-> FALSE]
                 ELSE fail
        ELSE same

\* Mutant of HandleNotify: the release branch issues the key-up but leaves
\* button_pressed set.
HandleNotifyNoClear(pressed, data, ok) ==
    LET same == [pressed |-> pressed, act |-> "none", raised |-> FALSE]
        fail == [pressed |-> pressed, act |-> "none", raised |-> TRUE]
    IN  IF Len(data) < 5 THEN same
        ELSE IF StartsWith(Message(data), ELET1) THEN
                 IF ~pressed
                 THEN IF ok THEN [pressed |-> TRUE, act |-> "keyDown", raised |-> FALSE]
                      ELSE fail
                 ELSE same
        ELSE IF StartsWith(Message(data), ELET2) THEN
                 IF pressed
                 THEN IF ok THEN [pressed |-> TRUE, act |-> "keyUp", raised |-> FALSE]
                      ELSE fail
                 ELSE same
        ELSE same

\* handle_notify: the flag after the call, the key action performed and whether
\* the call raised.  ok: the pyautogui call succeeds (it raises before acting
\* otherwise, and the exception leaves handle_notify).
HandleNotify(pressed, data, ok) ==
    LET same == [pressed |-> pressed, act |-> "none", raised |-> FALSE]
        fail == [pressed |-> pressed, act |-> "none", raised |-> TRUE]
    IN  IF Len(data) < 5 THEN same
        ELSE IF StartsWith(Message(data), ELET1) THEN
                 IF ~pressed
                 THEN IF ok THEN [pressed |-> TRUE, act |-> "keyDown", raised |-> FALSE]
                      ELSE fail
                 ELSE same
        ELSE IF StartsWith(Message(data), ELET2) THEN
                 IF pressed
                 THEN IF ok THEN [pressed |-> FALSE, act |-> "keyUp", raised |-> FALSE]
                      ELSE fail
                 ELSE same
        ELSE IF StartsWith(Message(data), BATT) THEN same
        ELSE same

\* Mutant of ReleaseIfHeld: the key-up without the "if button_pressed" guard.
ReleaseAlways(pressed, ok) ==
    IF ok THEN [pressed |-> FALSE, act |-> "keyUp", raised |-> FALSE]
    ELSE [pressed |-> pressed, act |-> "none", raised |-> TRUE]

\* "if button_pressed: keyUp(...); button_pressed = False", the release used
\* by the cancellation path, the exception path and cleanup_on_exit.
ReleaseIfHeld(pressed, ok) ==
    IF pressed
    THEN IF ok THEN [pressed |-> FALSE, act |-> "keyUp", raised |-> FALSE]
         ELSE [pressed |-> TRUE, act |-> "none", raised |-> TRUE]
    ELSE [pressed |-> FALSE, act |-> "none", raised |-> FALSE]

\* Mutant of CancelRelease: the cancellation is re-raised without the release.
CancelNoRelease(pressed, ok) == [pressed |-> pressed, act |-> "none", raised |-> FALSE]

\* connect_and_listen, except asyncio.CancelledError (monitoring loop).
CancelRelease(pressed, ok) == ReleaseIfHeld(pressed, ok)

\* Mutant of ExceptRelease: "return False" without the release.
ExceptNoRelease(pressed, ok) == [pressed |-> pressed, act |-> "none", raised |-> FALSE]

\* connect_and_listen, except Exception.
ExceptRelease(pressed, ok) == ReleaseIfHeld(pressed, ok)

\* cleanup_on_exit
CleanupOnExit(pressed, ok) == ReleaseIfHeld(pressed, ok)

\* The effect of the key actions of one step on the keyboard and the counts.
KeyEffect(acts, failed) ==
    /\ keyHeld' = IF acts = <<>> THEN keyHeld ELSE acts[Len(acts)] = "keyDown"
    /\ keyDowns' = keyDowns + Len(SelectSeq(acts, LAMBDA a : a = "keyDown"))
    /\ keyUps' = keyUps + Len(SelectSeq(acts, LAMBDA a : a = "keyUp"))
    /\ anyKeyFail' = (anyKeyFail \/ failed)

Acts(r) == IF r.act = "none" THEN <<>> ELSE <<r.act>>

\* ------------------------------------------------------- main's control flow
\* main, "while should_run": the next iteration, or main returns.
LoopTop == IF should_run THEN "scan" ELSE "run_ended"

\* Mutant of AfterSession: no sleep before the next iteration.
AfterSessionNoSleep == LoopTop

\* main, after connect_and_listen returned: "if should_run: sleep(reconnect_delay)".
AfterSession == IF should_run THEN "sleep_reconnect" ELSE "run_ended"

\* Mutant of OnException: the error ends the loop.
OnExceptionStops == "run_ended"

\* main, except Exception: "if should_run: sleep(reconnect_delay)".
OnException == IF should_run THEN "sleep_error" ELSE "run_ended"

\* --------------------------------------------------------------- startup
\* load_config: an absent config.ini is created from DEFAULT_CONFIG (empty
\* mac_address); an existing one is read, ConfigParser stripping the value.
\* main then sets PTT_MAC from the stripped value when it is not empty.
Startup ==
    /\ pc = "start"
    /\ IF fileExists
       THEN /\ cfgMac' = Strip(fileMac)
            /\ UNCHANGED << fileMac, fileExists, fileWrites >>
       ELSE /\ cfgMac' = <<>>
            /\ fileMac' = <<>>
            /\ fileExists' = TRUE
            /\ fileWrites' = fileWrites + 1
    /\ PTT_MAC' = Strip(cfgMac')
    /\ pc' = LoopTop
    /\ ev' = [op |-> "startup"]
    /\ UNCHANGED << should_run, ptt_devices, mac_address, linkVars, keyVars, envVars, sigVars >>

\* A configuration main cannot use (config.getint raises on a non-integer
\* scan_interval): the error reaches the __main__ block, which runs
\* cleanup_on_exit and exits with status 1.
StartupFail ==
    /\ pc = "start"
    /\ fileExists
    /\ pc' = "exited"
    /\ cfgMac' = Strip(fileMac)
    /\ PTT_MAC' = Strip(cfgMac')
    /\ ev' = [op |-> "fatal"]
    /\ UNCHANGED << should_run, fileMac, fileExists, fileWrites, ptt_devices,
                    mac_address, linkVars, keyVars, envVars, sigVars >>

\* ------------------------------------------------------------ find_ptt_device
\* Mutant of FindConfigured: the comparison without .upper().
FindConfiguredCaseSensitive(mac, addrs) ==
    IF \E i \in 1..Len(addrs) : addrs[i] = mac THEN mac ELSE <<>>

\* The configured branch: PTT_MAC when a scanned address equals it ignoring
\* case, None (<<>>) otherwise.
FindConfigured(mac, addrs) ==
    IF \E i \in 1..Len(addrs) : Upper(addrs[i]) = Upper(mac) THEN mac ELSE <<>>

\* The addresses of the scanned devices whose name holds "ELET-PTT", in scan order.
Candidates(devs) ==
    LET named == SelectSeq(devs, LAMBDA d : NameMatches(d.name))
    IN  [i \in 1..Len(named) |-> named[i].address]

\* int(choice) - 1, for a choice int() accepts.
ChoiceIndex(choice) == choice.value - 1

\* "0 <= idx < len(ptt_devices)"
ValidIndex(idx, cands) == 0 <= idx /\ idx < Len(cands)

\* ptt_devices[idx] (Python counts from 0).
Chosen(cands, idx) == cands[idx + 1]

\* Mutant of SaveMacToConfig: the file is written before config.set, so it
\* holds the previous value.
SaveMacStale(mac, wrOk) ==
    /\ cfgMac' = mac
    /\ IF wrOk
       THEN /\ fileMac' = cfgMac
            /\ fileExists' = TRUE
            /\ fileWrites' = fileWrites + 1
       ELSE UNCHANGED << fileMac, fileExists, fileWrites >>

\* save_mac_to_config: config.set, then config.ini is rewritten; when the file
\* cannot be opened (wrOk false) the value is set in memory only and the
\* error propagates.
SaveMacToConfig(mac, wrOk) ==
    /\ cfgMac' = mac
    /\ IF wrOk
       THEN /\ fileMac' = mac
            /\ fileExists' = TRUE
            /\ fileWrites' = fileWrites + 1
       ELSE UNCHANGED << fileMac, fileExists, fileWrites >>

\* Mutant of Select: the assignment binds a local name (no "global PTT_MAC"),
\* so the module-level address stays as it was.
SelectLocal(selected, wrOk, how, cands, choice) ==
    /\ PTT_MAC' = PTT_MAC
    /\ SaveMacToConfig(selected, wrOk)
    /\ IF wrOk
       THEN /\ pc' = "connect"
            /\ mac_address' = selected
            /\ ev' = [op |-> "find", how |-> how, result |-> selected,
                      candidates |-> cands, choice |-> choice]
       ELSE /\ pc' = OnException
            /\ UNCHANGED mac_address
            /\ ev' = [op |-> "find", how |-> "save_failed", result |-> <<>>,
                      candidates |-> cands, choice |-> choice]

\* "PTT_MAC = selected_mac; save_mac_to_config(selected_mac); return selected_mac"
\* and main's next step: connect_and_listen(mac_address), or except Exception
\* when saving raised.
Select(selected, wrOk, how, cands, choice) ==
    /\ PTT_MAC' = selected
    /\ SaveMacToConfig(selected, wrOk)
    /\ IF wrOk
       THEN /\ pc' = "connect"
            /\ mac_address' = selected
            /\ ev' = [op |-> "find", how |-> how, result |-> selected,
                      candidates |-> cands, choice |-> choice]
       ELSE /\ pc' = OnException
            /\ UNCHANGED mac_address
            /\ ev' = [op |-> "find", how |-> "save_failed", result |-> <<>>,
                      candidates |-> cands, choice |-> choice]

\* main, find_ptt_device returned None: sleep(scan_interval).
NotFound(how, cands, choice) ==
    /\ pc' = "sleep_scan"
    /\ ev' = [op |-> "find", how |-> how, result |-> <<>>,
              candidates |-> cands, choice |-> choice]
    /\ UNCHANGED << cfgVars, mac_address >>

NoChoice == [numeric |-> FALSE, value |-> 0]

\* find_ptt_device with PTT_MAC set: a 3 s scan, then the address check.
ScanConfigured(addrs) ==
    /\ pc = "scan"
    /\ ~cancelPending
    /\ PTT_MAC # <<>>
    /\ LET found == FindConfigured(PTT_MAC, addrs)
       IN  /\ pc' = IF found # <<>> THEN "connect" ELSE "sleep_scan"
           /\ mac_address' = IF found # <<>> THEN found ELSE mac_address
           /\ ev' = [op |-> "find", how |-> "configured", result |-> found,
                     scanned |-> { addrs[i] : i \in 1..Len(addrs) }]
    /\ UNCHANGED << should_run, cfgVars, ptt_devices, linkVars, keyVars, envVars, sigVars >>

\* find_ptt_device with PTT_MAC unset: a 5 s scan, the name filter, then no
\* candidate, one candidate (auto-select) or the prompt.
ScanDiscover(devs, wrOk) ==
    /\ pc = "scan"
    /\ ~cancelPending
    /\ PTT_MAC = <<>>
    /\ LET cands == Candidates(devs)
       IN  IF cands = <<>>
           THEN /\ NotFound("no_candidate", cands, NoChoice)
                /\ UNCHANGED ptt_devices
           ELSE IF Len(cands) = 1
           THEN /\ Select(cands[1], wrOk, "auto", cands, NoChoice)
                /\ UNCHANGED ptt_devices
           ELSE /\ pc' = "prompt"
                /\ ptt_devices' = cands
                /\ ev' = [op |-> "prompt_open", candidates |-> cands]
                /\ UNCHANGED << cfgVars, mac_address >>
    /\ UNCHANGED << should_run, linkVars, keyVars, envVars, sigVars >>

\* BleakScanner.discover raises: main's except Exception.
ScanError ==
    /\ pc = "scan"
    /\ ~cancelPending
    /\ pc' = OnException
    /\ ev' = [op |-> "find", how |-> "raised", result |-> <<>>]
    /\ UNCHANGED << should_run, cfgVars, ptt_devices, mac_address, linkVars, keyVars,
                    envVars, sigVars >>

\* The operator answers the prompt: a valid number selects, any other number
\* prints "Invalid choice" and returns None, other text raises ValueError,
\* which is caught and returns None.
Prompt(choice, wrOk) ==
    /\ pc = "prompt"
    /\ IF choice.numeric
       THEN IF ValidIndex(ChoiceIndex(choice), ptt_devices)
            THEN Select(Chosen(ptt_devices, ChoiceIndex(choice)), wrOk, "choice",
                        ptt_devices, choice)
            ELSE NotFound("invalid", ptt_devices, choice)
       ELSE NotFound("invalid", ptt_devices, choice)
    /\ ptt_devices' = <<>>
    /\ UNCHANGED << should_run, linkVars, keyVars, envVars, sigVars >>

\* End of input at the prompt: input() raises EOFError, which find_ptt_device
\* does not catch: main's except Exception.
PromptEof ==
    /\ pc = "prompt"
    /\ pc' = OnException
    /\ ptt_devices' = <<>>
    /\ ev' = [op |-> "find", how |-> "eof", result |-> <<>>,
              candidates |-> ptt_devices, choice |-> NoChoice]
    /\ UNCHANGED << should_run, cfgVars, mac_address, linkVars, keyVars, envVars, sigVars >>

\* --------------------------------------------------------- connect_and_listen
\* BleakClient.__aenter__ connected: on to start_notify.
ConnectOk ==
    /\ pc = "connect"
    /\ ~cancelPending
    /\ pc' = "subscribe"
    /\ linkUp' = TRUE
    /\ ev' = [op |-> "connected"]
    /\ UNCHANGED << should_run, cfgVars, ptt_devices, mac_address, subscribed, keyVars,
                    envVars, sigVars >>

\* "if not client.is_connected: return False": the client is closed and the
\* session returns without touching the key state.
ConnectNotConnected ==
    /\ pc = "connect"
    /\ ~cancelPending
    /\ pc' = AfterSession
    /\ ev' = [op |-> "session", outcome |-> "ConnectFailed", cause |-> "not_connected",
              raised |-> FALSE, heldBefore |-> button_pressed, ups |-> 0,
              stopNotify |-> FALSE]
    /\ UNCHANGED << should_run, cfgVars, ptt_devices, mac_address, linkVars, keyVars,
                    envVars, sigVars >>

\* The transport raises during connect, subscribe or monitoring: the client is
\* closed, "except Exception" releases the key when held and returns False;
\* when that key-up raises the error leaves connect_and_listen for main's
\* except Exception.
SessionError(ok) ==
    /\ pc \in { "connect", "subscribe", "monitor" }
    /\ ~cancelPending
    /\ LET r == ExceptRelease(button_pressed, ok)
       IN  /\ button_pressed' = r.pressed
           /\ KeyEffect(Acts(r), r.raised)
           /\ pc' = IF r.raised THEN OnException ELSE AfterSession
           /\ ev' = [op |-> "session",
                     outcome |-> IF pc = "connect" THEN "ConnectFailed" ELSE "Error",
                     cause |-> "exception",
                     raised |-> r.raised, heldBefore |-> button_pressed,
                     ups |-> Len(Acts(r)), stopNotify |-> FALSE]
    /\ linkUp' = FALSE
    /\ subscribed' = FALSE
    /\ UNCHANGED << should_run, cfgVars, ptt_devices, mac_address, envVars, sigVars >>

\* start_notify returned: handle_notify is registered, the monitoring loop starts.
SubscribeOk ==
    /\ pc = "subscribe"
    /\ ~cancelPending
    /\ pc' = "monitor"
    /\ subscribed' = TRUE
    /\ ev' = [op |-> "subscribed"]
    /\ UNCHANGED << should_run, cfgVars, ptt_devices, mac_address, linkUp, keyVars,
                    envVars, sigVars >>

\* One tick of "while should_run: sleep(1); if not client.is_connected: break".
Tick ==
    /\ pc = "monitor"
    /\ ~cancelPending
    /\ IF linkUp /\ should_run
       THEN /\ pc' = "monitor"
            /\ ev' = [op |-> "tick"]
       ELSE /\ pc' = "unsub"
            /\ ev' = [op |-> "loop_exit", lost |-> ~linkUp, held |-> button_pressed,
                      ups |-> keyUps]
    /\ UNCHANGED << should_run, cfgVars, ptt_devices, mac_address, linkVars, keyVars,
                    envVars, sigVars >>

\* What the tick that left the monitoring loop saw.  Under Spec nothing runs
\* between that tick and the return; a handler statement that ran in between
\* (SpecRace) leaves only the present values to report.
SinceLoopExit ==
    IF ev.op = "loop_exit" THEN ev
    ELSE [op |-> "loop_exit", lost |-> ~linkUp, held |-> button_pressed, ups |-> keyUps]

\* After the loop: stop_notify (its failure is swallowed), the client is
\* closed, "return True".  sinceLoss: the event of the tick that left the loop
\* (nothing else runs between that tick and this step).
SessionReturn(sinceLoss, swallowedCancel) ==
    /\ pc' = AfterSession
    /\ linkUp' = FALSE
    /\ subscribed' = FALSE
    /\ ev' = [op |-> "session", outcome |-> "Disconnected", cause |-> "lost",
              raised |-> FALSE, heldBefore |-> sinceLoss.held,
              ups |-> keyUps - sinceLoss.ups, stopNotify |-> TRUE,
              swallowedCancel |-> swallowedCancel]

Unsub ==
    /\ pc = "unsub"
    /\ ~cancelPending
    /\ SessionReturn(SinceLoopExit, FALSE)
    /\ UNCHANGED << should_run, cfgVars, ptt_devices, mac_address, keyVars, envVars, sigVars >>

\* The setting each backoff sleep waits for: asyncio.sleep(scan_interval)
\* after not-found, asyncio.sleep(reconnect_delay) after a session and in
\* except Exception.
Delay(at) == IF at = "sleep_scan" THEN "scan_interval" ELSE "reconnect_delay"

\* A backoff sleep ends: back to "while should_run".
SleepDone ==
    /\ pc \in { "sleep_reconnect", "sleep_scan", "sleep_error" }
    /\ ~cancelPending
    /\ pc' = LoopTop
    /\ ev' = [op |-> "slept", which |-> pc, waited |-> Delay(pc)]
    /\ UNCHANGED << should_run, cfgVars, ptt_devices, mac_address, linkVars, keyVars,
                    envVars, sigVars >>

\* ------------------------------------------------------------- the transport
\* The transport delivers a notification to handle_notify while the session
\* is monitoring a live connection.
Notify(data, ok) ==
    /\ pc = "monitor"
    /\ subscribed
    /\ linkUp
    /\ LET r == HandleNotify(button_pressed, data, ok)
       IN  /\ r.act = "keyDown" => keyDowns < MaxKeyDowns
           /\ button_pressed' = r.pressed
           /\ KeyEffect(Acts(r), r.raised)
           /\ ev' = [op |-> "notify", data |-> data, pre |-> button_pressed,
                     act |-> r.act, raised |-> r.raised]
    /\ UNCHANGED << pc, should_run, cfgVars, ptt_devices, mac_address, linkVars,
                    envVars, sigVars >>

\* The device goes out of range or powers off: client.is_connected turns false.
LinkDrop ==
    /\ pc = "monitor"
    /\ linkUp
    /\ linkUp' = FALSE
    /\ ev' = [op |-> "linkdrop"]
    /\ UNCHANGED << pc, should_run, cfgVars, ptt_devices, mac_address, subscribed,
                    keyVars, envVars, sigVars >>

\* ----------------------------------------- handle_notify, statement by statement
\* The branch handle_notify takes on a payload: the length check, the decode
\* and the startswith tests.
HandlerBranch(data) ==
    IF Len(data) < 5 THEN "none"
    ELSE IF StartsWith(Message(data), ELET1) THEN "press"
    ELSE IF StartsWith(Message(data), ELET2) THEN "release"
    ELSE "none"

\* The transport calls handle_notify on its own context; the call runs up to
\* and including its test of button_pressed ("if not button_pressed" /
\* "if button_pressed") and stands before the pyautogui call, or returns.
HCheck(data) ==
    /\ pc = "monitor"
    /\ subscribed
    /\ linkUp
    /\ hnd = "idle"
    /\ hnd' = IF HandlerBranch(data) = "press" /\ ~button_pressed THEN "keyDown"
              ELSE IF HandlerBranch(data) = "release" /\ button_pressed THEN "keyUp"
              ELSE "idle"
    /\ hnd' = "keyDown" => keyDowns < MaxKeyDowns
    /\ ev' = [op |-> "handler", step |-> "check", branch |-> HandlerBranch(data)]
    /\ UNCHANGED << pc, should_run, cfgVars, ptt_devices, mac_address, linkVars,
                    keyVars, runner, sigVars >>

\* pyautogui.keyDown / pyautogui.keyUp of the running call; when it raises the
\* call ends without the flag write.
HAct(ok) ==
    /\ hnd \in { "keyDown", "keyUp" }
    /\ KeyEffect(IF ok THEN << hnd >> ELSE <<>>, ~ok)
    /\ hnd' = IF ~ok THEN "idle" ELSE IF hnd = "keyDown" THEN "setTrue" ELSE "setFalse"
    /\ ev' = [op |-> "handler", step |-> "act", heldBefore |-> keyHeld, raised |-> ~ok]
    /\ UNCHANGED << pc, should_run, cfgVars, ptt_devices, mac_address, linkVars,
                    button_pressed, runner, sigVars >>

\* "button_pressed = True" / "button_pressed = False" of the running call.
HWrite ==
    /\ hnd \in { "setTrue", "setFalse" }
    /\ button_pressed' = (hnd = "setTrue")
    /\ hnd' = "idle"
    /\ ev' = [op |-> "handler", step |-> "write"]
    /\ UNCHANGED << pc, should_run, cfgVars, ptt_devices, mac_address, linkVars,
                    keyHeld, keyDowns, keyUps, anyKeyFail, runner, sigVars >>

\* ------------------------------------------------------------ operator stop
\* A CancelledError thrown into the main task at its pending await.
\*   scan, connect, subscribe, the sleeps of the try block: it reaches main's
\*     "except asyncio.CancelledError": should_run = False; break.
\*   monitor: connect_and_listen's "except asyncio.CancelledError" releases the
\*     key and re-raises; when that key-up raises (ok1 false) the new error is
\*     caught by "except Exception", which releases again (ok2) and returns
\*     False, or lets the error reach main's except Exception.
\*   unsub: the bare "except:" around stop_notify swallows it; return True.
\*   sleep_error: raised inside main's except block, it leaves main; the runner
\*     turns the cancelled task into KeyboardInterrupt.
Cancelled(kbiNow, ok1, ok2) ==
    IF pc = "monitor"
    THEN LET r1 == CancelRelease(button_pressed, ok1)
             r2 == ExceptRelease(r1.pressed, ok2)
             r == IF r1.raised THEN r2 ELSE r1
         IN  /\ button_pressed' = r.pressed
             /\ KeyEffect(IF r1.raised THEN Acts(r2) ELSE Acts(r1), r1.raised)
             /\ should_run' = IF r1.raised THEN should_run ELSE FALSE
             /\ pc' = IF ~r1.raised THEN "run_ended"
                      ELSE IF r2.raised THEN OnException ELSE AfterSession
             /\ linkUp' = FALSE
             /\ subscribed' = FALSE
             /\ kbi' = kbiNow
             /\ ev' = [op |-> "cancel", at |-> pc, heldBefore |-> button_pressed,
                       propagated |-> ~r1.raised, keyRaised |-> r1.raised,
                       ups |-> Len(IF r1.raised THEN Acts(r2) ELSE Acts(r1)),
                       linkBefore |-> linkUp, stopNotify |-> FALSE]
    ELSE IF pc = "unsub"
    THEN /\ SessionReturn(SinceLoopExit, TRUE)
         /\ kbi' = kbiNow
         /\ UNCHANGED << should_run, keyVars >>
    ELSE /\ pc' = "run_ended"
         /\ should_run' = IF pc = "sleep_error" THEN should_run ELSE FALSE
         /\ kbi' = (kbiNow \/ pc = "sleep_error")
         /\ linkUp' = FALSE
         /\ subscribed' = FALSE
         /\ ev' = [op |-> "cancel", at |-> pc, heldBefore |-> button_pressed,
                   propagated |-> TRUE, keyRaised |-> FALSE, ups |-> 0,
                   linkBefore |-> linkUp, stopNotify |-> FALSE]
         /\ UNCHANGED keyVars

\* The operator presses Ctrl+C.
\*   At the prompt (input() blocks the task): KeyboardInterrupt is raised in
\*     input() and caught by find_ptt_device, which returns None; under the
\*     "cancel" runner the first Ctrl+C only requests the task's cancellation.
\*   During asyncio.run's shutdown (kbi): KeyboardInterrupt leaves asyncio.run
\*     at once, the main task is abandoned where it stands.
\*   Otherwise the main task is cancelled at its await; unless this is the
\*     "cancel" runner's first Ctrl+C, a KeyboardInterrupt follows it to the
\*     __main__ block.
Sigint(ok1, ok2) ==
    /\ sigints < MaxSigints
    /\ pc \in AwaitPcs \cup { "prompt" }
    /\ sigints' = sigints + 1
    /\ IF pc = "prompt"
       THEN IF runner = "cancel" /\ sigints = 0 /\ ~kbi
            THEN /\ cancelPending' = TRUE
                 /\ ev' = [op |-> "sigint", at |-> pc]
                 /\ UNCHANGED << pc, should_run, cfgVars, ptt_devices, mac_address,
                                 linkVars, keyVars, kbi >>
            ELSE /\ NotFound("aborted", ptt_devices, NoChoice)
                 /\ ptt_devices' = <<>>
                 /\ UNCHANGED << should_run, linkVars, keyVars, kbi, cancelPending >>
       ELSE IF kbi
            THEN /\ pc' = "run_ended"
                 /\ ev' = [op |-> "interrupt", at |-> pc]
                 /\ UNCHANGED << should_run, cfgVars, ptt_devices, mac_address, linkVars,
                                 keyVars, kbi, cancelPending >>
            ELSE /\ Cancelled(~(runner = "cancel" /\ sigints = 0), ok1, ok2)
                 /\ cancelPending' = FALSE
                 /\ UNCHANGED << cfgVars, ptt_devices, mac_address >>
    /\ UNCHANGED envVars

\* A cancellation requested during input() is thrown at the task's next await.
DeliverPending(ok1, ok2) ==
    /\ cancelPending
    /\ pc \in AwaitPcs
    /\ Cancelled(kbi, ok1, ok2)
    /\ cancelPending' = FALSE
    /\ UNCHANGED << cfgVars, ptt_devices, mac_address, envVars, sigints >>

\* asyncio.run has ended.  With a KeyboardInterrupt the __main__ block runs
\* cleanup_on_exit; when main simply returned nothing more runs.
Exit(ok) ==
    /\ pc = "run_ended"
    /\ pc' = "exited"
    /\ LET r == IF kbi THEN CleanupOnExit(button_pressed, ok)
                ELSE [pressed |-> button_pressed, act |-> "none", raised |-> FALSE]
       IN  /\ button_pressed' = r.pressed
           /\ KeyEffect(Acts(r), r.raised)
           /\ ev' = [op |-> "exit", cleanup |-> kbi, heldBefore |-> button_pressed,
                     raised |-> r.raised]
    /\ linkUp' = FALSE
    /\ subscribed' = FALSE
    /\ UNCHANGED << should_run, cfgVars, ptt_devices, mac_address, envVars, sigVars >>

\* ----------------------------------------------------------- specification
\* The steps of the main task, the operator and the device.
MainSteps ==
    \/ Startup
    \/ StartupFail
    \/ \E addrs \in AddressScans : ScanConfigured(addrs)
    \/ \E devs \in ScanResults, wrOk \in BOOLEAN : ScanDiscover(devs, wrOk)
    \/ ScanError
    \/ \E choice \in Choices, wrOk \in BOOLEAN : Prompt(choice, wrOk)
    \/ PromptEof
    \/ ConnectOk
    \/ ConnectNotConnected
    \/ \E ok \in BOOLEAN : SessionError(ok)
    \/ SubscribeOk
    \/ Tick
    \/ Unsub
    \/ SleepDone
    \/ LinkDrop
    \/ \E ok1 \in BOOLEAN, ok2 \in BOOLEAN : Sigint(ok1, ok2)
    \/ \E ok1 \in BOOLEAN, ok2 \in BOOLEAN : DeliverPending(ok1, ok2)
    \/ \E ok \in BOOLEAN : Exit(ok)

\* handle_notify runs on the event loop, between two awaits of the main task:
\* each call is one step.
Next ==
    \/ MainSteps
    \/ \E data \in Payloads, ok \in BOOLEAN : Notify(data, ok)

Spec == Init /\ [][Next]_vars

\* handle_notify runs on a context of the transport: its statements
\* interleave with the steps of the main task.
NextRace ==
    \/ MainSteps
    \/ \E data \in Payloads : HCheck(data)
    \/ \E ok \in BOOLEAN : HAct(ok)
    \/ HWrite

SpecRace == Init /\ [][NextRace]_vars

\* ------------------------------------------------------------------ claims
\* Places where no connection to the device is open: before the first
\* session, while resolving or backing off, and after the loop has ended.
NoConnection ==
    pc \in { "start", "scan", "prompt", "sleep_reconnect", "sleep_scan",
             "sleep_error", "run_ended", "exited" }

\* Payloads of at least 5 bytes whose ASCII text starts with ELET1 / ELET2.
PressPayloads == { <<69, 76, 69, 84, 49>>, <<69, 76, 69, 84, 49, 88>> }
ReleasePayloads == { <<69, 76, 69, 84, 50>> }

\* C1: whenever no connection to the device is active, button_pressed is
\* false.  Stated for the runs in which no key action has raised, which is
\* all the claim needs to be refuted: a session that ends because the
\* connection was lost returns with the flag still set.
C1_FlagFalseWithoutConnection ==
    (NoConnection /\ ~anyKeyFail) => ~button_pressed

\* C2: a session that ends because the liveness check failed while the key
\* was held ends as Disconnected, has issued exactly one key-up since the
\* check, and returns with button_pressed false.
C2_DisconnectReleasesKey ==
    (ev.op = "session" /\ ev.outcome = "Disconnected" /\ ev.heldBefore)
        => (~button_pressed /\ ev.ups = 1)

\* C3: after an operator stop the process never exits with the key still
\* down: at exit button_pressed is false and the key is up.  Stated for the
\* runs in which no key action has raised.
C3_KeyReleasedBeforeExit ==
    (pc = "exited" /\ sigints > 0 /\ ~anyKeyFail) => (~button_pressed /\ ~keyHeld)

\* C4: a press notification handled while button_pressed is true issues no
\* key action and leaves the flag true; handled while it is false it issues
\* the one key-down; either way exactly one key-down is then unmatched by a
\* key-up; and from every reachable key state a second handling of the same
\* press payload issues nothing and leaves the flag as the first handling
\* left it.
C4_PressIdempotent ==
    /\ (ev.op = "notify" /\ ev.data \in PressPayloads /\ ev.pre)
           => (ev.act = "none" /\ ~ev.raised /\ button_pressed /\ keyDowns = keyUps + 1)
    /\ (ev.op = "notify" /\ ev.data \in PressPayloads /\ ~ev.pre /\ ~ev.raised)
           => (ev.act = "keyDown" /\ button_pressed /\ keyHeld /\ keyDowns = keyUps + 1)
    /\ \A data \in PressPayloads, ok \in BOOLEAN :
           LET once == HandleNotify(button_pressed, data, ok)
               twice == HandleNotify(once.pressed, data, ok)
           IN  /\ twice.pressed = once.pressed
               /\ twice.act = "none"
               /\ (ok => once.pressed /\ ~twice.raised)

\* C4 witness: a duplicate press was handled while the key was already held,
\* one key-down having been issued so far.
C4_Witness ==
    /\ ev.op = "notify"
    /\ ev.data \in PressPayloads
    /\ ev.pre
    /\ keyDowns = 1
    /\ keyUps = 0

\* C5: a release notification handled while button_pressed is true (a press
\* came before it) issues one key-up and leaves the flag false; handled while
\* the flag is false it issues nothing; either way every key-down so far is
\* then matched by exactly one key-up; and from every reachable key state a
\* press followed by a release ends with the flag false and exactly one
\* key-up.
C5_ReleaseAfterPress ==
    /\ (ev.op = "notify" /\ ev.data \in ReleasePayloads /\ ev.pre /\ ~ev.raised)
           => (ev.act = "keyUp" /\ ~button_pressed /\ ~keyHeld /\ keyUps = keyDowns)
    /\ (ev.op = "notify" /\ ev.data \in ReleasePayloads /\ ~ev.pre)
           => (ev.act = "none" /\ ~ev.raised /\ ~button_pressed /\ keyUps = keyDowns)
    /\ \A p \in PressPayloads, q \in ReleasePayloads :
           LET a == HandleNotify(button_pressed, p, TRUE)
               b == HandleNotify(a.pressed, q, TRUE)
           IN  /\ a.act # "keyUp"
               /\ b.act = "keyUp"
               /\ ~b.pressed

\* C5 witness: a release was handled after a press, and the one key-down is
\* matched by one key-up.
C5_Witness ==
    /\ ev.op = "notify"
    /\ ev.data \in ReleasePayloads
    /\ ev.pre
    /\ ev.act = "keyUp"
    /\ keyDowns = 1
    /\ keyUps = 1

\* C6: a notification that is not a press or release payload (shorter than 5
\* bytes, BATT, another prefix, or not ASCII) issues no key action, does not
\* raise and leaves button_pressed as it was.
C6_OtherPayloadsNoEffect ==
    (ev.op = "notify" /\ ev.data \notin (PressPayloads \cup ReleasePayloads))
        => (ev.act = "none" /\ ~ev.raised /\ button_pressed = ev.pre)

\* C6 witness: the non-ASCII payload "ELET1" + 0xff was handled while the key
\* was up, and the key is still up.
C6_Witness ==
    /\ ev.op = "notify"
    /\ ev.data = <<69, 76, 69, 84, 49, 255>>
    /\ ~ev.pre
    /\ ~button_pressed

\* C7: handle_notify never raises into the transport.
C7_HandlerNeverRaises ==
    ev.op = "notify" => ~ev.raised

\* C8: an invalid choice or an abort at the prompt stops the program: the
\* loop does not go on to sleep and resolve again.
C8_InvalidChoiceStopsProgram ==
    (ev.op = "find" /\ ev.how \in { "invalid", "aborted" })
        => pc \in { "run_ended", "exited" }

\* C9: with PTT_MAC set, find_ptt_device returns PTT_MAC exactly when a
\* scanned address equals it ignoring case and None otherwise (main then
\* connects to PTT_MAC, or sleeps scan_interval without a prompt); and no step
\* taken from the scan of a configured address changes PTT_MAC, the
\* configuration or config.ini.
C9_ConfiguredResolve ==
    /\ [](  (ev.op = "find" /\ ev.how = "configured")
            => /\ PTT_MAC # <<>>
               /\ ev.result \in { PTT_MAC, <<>> }
               /\ (ev.result = PTT_MAC)
                      <=> (\E a \in ev.scanned : Upper(a) = Upper(PTT_MAC))
               /\ (ev.result = PTT_MAC) => (pc = "connect" /\ mac_address = PTT_MAC)
               /\ (ev.result = <<>>) => pc = "sleep_scan"  )
    /\ [][ (pc = "scan" /\ PTT_MAC # <<>>)
             => (UNCHANGED cfgVars /\ pc' # "prompt") ]_vars

\* C9 witness: the configured address "a1" was resolved from a scan that
\* reported "A1".
C9_Witness ==
    /\ ev.op = "find"
    /\ ev.how = "configured"
    /\ ev.result = <<97, 49>>
    /\ <<65, 49>> \in ev.scanned
    /\ <<97, 49>> \notin ev.scanned

\* C10: when find_ptt_device returns an address it discovered, that address
\* is the single candidate (auto-selection) or the k-th candidate in scan
\* order (operator choice k), and afterwards PTT_MAC, the configuration in
\* memory and the value read back from config.ini all equal it.
C10_DiscoveredAddressPersisted ==
    (ev.op = "find" /\ ev.how \in { "auto", "choice" })
        => /\ ev.result # <<>>
           /\ ev.how = "auto"
                  => (Len(ev.candidates) = 1 /\ ev.result = ev.candidates[1])
           /\ ev.how = "choice"
                  => /\ ev.choice.numeric
                     /\ ev.choice.value \in 1..Len(ev.candidates)
                     /\ ev.result = ev.candidates[ev.choice.value]
           /\ mac_address = ev.result
           /\ PTT_MAC = ev.result
           /\ cfgMac = ev.result
           /\ fileExists
           /\ Strip(Strip(fileMac)) = ev.result

\* C10 witness: the operator chose 2 among two candidates and the second
\* candidate's address was returned.
C10_Witness ==
    /\ ev.op = "find"
    /\ ev.how = "choice"
    /\ Len(ev.candidates) = 2
    /\ ev.choice.value = 2
    /\ ev.result = ev.candidates[2]

\* The backoff sleeps of main.
SleepPcs == { "sleep_reconnect", "sleep_scan", "sleep_error" }

\* C11: a resolve attempt starts only at startup or when a backoff sleep has
\* ended; an iteration that ends with not-found goes to the scan_interval
\* sleep, one whose session returned goes to the reconnect_delay sleep, and
\* one that raised goes to the reconnect_delay sleep of except Exception.
C11_BackoffBeforeResolve ==
    /\ [][ pc' = "scan"
             => /\ pc \in SleepPcs \cup { "start" }
                /\ pc \in SleepPcs
                       => (ev'.op = "slept" /\ ev'.which = pc /\ ev'.waited = Delay(pc)) ]_vars
    /\ [](  /\ (ev.op = "find" /\ ev.how \in { "configured", "no_candidate", "invalid", "aborted" }
                   /\ ev.result = <<>>)
                => (pc = "sleep_scan" /\ Delay(pc) = "scan_interval")
            /\ (ev.op = "find" /\ ev.how \in { "raised", "eof", "save_failed" })
                => (pc = "sleep_error" /\ Delay(pc) = "reconnect_delay")
            /\ (ev.op = "session" /\ ~ev.raised)
                => (pc = "sleep_reconnect" /\ Delay(pc) = "reconnect_delay")
            /\ (ev.op = "session" /\ ev.raised)
                => (pc = "sleep_error" /\ Delay(pc) = "reconnect_delay")  )

\* C11 witness: a resolve attempt starts after the reconnect_delay sleep that
\* followed an uncaught error.
C11_Witness ==
    /\ pc = "scan"
    /\ ev.op = "slept"
    /\ ev.which = "sleep_error"
    /\ ev.waited = "reconnect_delay"

\* The specification with the event loop's timers: a backoff sleep that stays
\* pending ends (asyncio.sleep returns once its delay has passed).
SpecLive == Init /\ [][Next]_vars /\ WF_vars(SleepDone)

\* C12: without an operator stop the loop never ends (only a startup
\* configuration error ends the process), every iteration that ends with
\* not-found, a failed or lost session or an error stands at a backoff
\* sleep, and from every backoff sleep a new resolve attempt begins.
C12_RetriesForever ==
    /\ [](  /\ (sigints = 0 /\ pc \in { "run_ended", "exited" }) => ev.op = "fatal"
            /\ (sigints = 0 /\ ev.op = "find" /\ ev.result = <<>>) => pc \in SleepPcs
            /\ (sigints = 0 /\ ev.op = "session") => pc \in SleepPcs  )
    /\ (pc \in SleepPcs /\ sigints = 0) ~> (pc = "scan" \/ sigints > 0)

\* C12 witness: with no operator stop, a resolve attempt begins after the
\* backoff that followed a lost connection.
C12_Witness ==
    /\ sigints = 0
    /\ pc = "scan"
    /\ ev.op = "slept"
    /\ ev.which = "sleep_reconnect"
    /\ keyDowns = 1

\* C13: a transport exception during connect, subscribe or monitoring is
\* caught by connect_and_listen: the client is closed, a held key gets one
\* key-up and button_pressed is false, the session returns False and main
\* goes to its reconnect_delay sleep.  (When that key-up itself raises, the
\* new error reaches main's except Exception, which also backs off.)
C13_TransportErrorCaught ==
    (ev.op = "session" /\ ev.cause = "exception")
        => /\ ev.outcome \in { "ConnectFailed", "Error" }
           /\ ~linkUp
           /\ ~subscribed
           /\ ~ev.raised
                  => /\ ~button_pressed
                     /\ ~keyHeld
                     /\ ev.ups = (IF ev.heldBefore THEN 1 ELSE 0)
                     /\ pc = "sleep_reconnect"
           /\ ev.raised => (ev.heldBefore /\ pc = "sleep_error")

\* C13 witness: a transport error ended a subscribed session while the key
\* was held; the key was released and main stands at its backoff.
C13_Witness ==
    /\ ev.op = "session"
    /\ ev.cause = "exception"
    /\ ev.outcome = "Error"
    /\ ev.heldBefore
    /\ ev.ups = 1
    /\ ~button_pressed
    /\ pc = "sleep_reconnect"

\* C14: a cancellation delivered in the monitoring loop releases a held key
\* (one key-up, button_pressed false), closes the connection and reaches
\* main, which sets should_run false and ends; once the loop has ended no
\* resolve, connect or backoff step follows.  (Stated for a key-up that does
\* not raise.)
C14_CancelDuringMonitoring ==
    /\ [](  (ev.op = "cancel" /\ ev.at = "monitor" /\ ~ev.keyRaised)
            => /\ ev.propagated
               /\ ~button_pressed
               /\ ~keyHeld
               /\ ev.ups = (IF ev.heldBefore THEN 1 ELSE 0)
               /\ ~linkUp
               /\ ~subscribed
               /\ ~should_run
               /\ pc = "run_ended"  )
    /\ [][ (pc \in { "run_ended", "exited" }) => (pc' \in { "run_ended", "exited" }) ]_vars

\* C14 witness: the operator stopped a session whose key was held; the key
\* was released and the loop has ended.
C14_Witness ==
    /\ ev.op = "cancel"
    /\ ev.at = "monitor"
    /\ ev.heldBefore
    /\ ev.ups = 1
    /\ ~button_pressed
    /\ pc = "run_ended"

\* C15: a cancellation delivered in the monitoring loop while the device is
\* still connected calls stop_notify before the connection is closed.
C15_UnsubscribeOnCancel ==
    (ev.op = "cancel" /\ ev.at = "monitor" /\ ev.linkBefore) => ev.stopNotify

\* C16: a session attempt that ends as ConnectFailed returns with
\* button_pressed false.  Stated for the runs in which no key action has
\* raised.
C16_ConnectFailedClearsFlag ==
    (ev.op = "session" /\ ev.outcome = "ConnectFailed" /\ ~anyKeyFail)
        => ~button_pressed

\* C18: in every reachable state button_pressed is true exactly when one more
\* key-down than key-up has been issued, and otherwise the counts are equal;
\* the flag always agrees with the key's physical state, so no release path
\* issues a key-up while the key is not held.
C18_FlagMatchesKeyCounts ==
    /\ button_pressed <=> (keyDowns = keyUps + 1)
    /\ ~button_pressed <=> (keyDowns = keyUps)
    /\ keyHeld = button_pressed
    /\ (ev.op \in { "cancel", "session" }) => ev.ups <= 1
    /\ (ev.op \in { "cancel", "session" } /\ ev.ups = 1) => ev.heldBefore

\* C18 witness: a second press was released by the exit cleanup after the
\* first had been released by another path.
C18_Witness ==
    /\ ev.op = "exit"
    /\ ev.cleanup
    /\ ev.heldBefore
    /\ ~button_pressed
    /\ keyDowns = 2
    /\ keyUps = 2

\* C19: an operator stop delivered at the await of stop_notify, after a
\* connection loss, ends the supervisory loop: the session that took the
\* cancellation is not followed by a backoff sleep, a resolve attempt or a
\* new session.
C19_CancelAtUnsubscribeStops ==
    (ev.op = "session" /\ ev.outcome = "Disconnected" /\ ev.swallowedCancel)
        => pc \in { "run_ended", "exited" }

\* C20 (as stated): the configuration file is written at most once per
\* process run.
C20_FileWrittenAtMostOnce == fileWrites <= 1

\* C20 (amended): once PTT_MAC is non-empty it never changes, name-based
\* discovery and the operator prompt never run again and the file is not
\* written again; the file is written only by load_config creating a missing
\* config.ini at startup and by the one save_mac_to_config call of the step
\* that sets PTT_MAC, which stores that address: at most twice per run.
C20_AddressFixedOnceSet ==
    /\ [][ PTT_MAC # <<>>
              => /\ PTT_MAC' = PTT_MAC
                 /\ UNCHANGED << cfgMac, fileMac, fileExists, fileWrites, ptt_devices >>
                 /\ pc' # "prompt"
                 /\ ev'.op = "find" => ev'.how \in { "configured", "raised" } ]_vars
    /\ [][ fileWrites' # fileWrites
              => /\ fileWrites' = fileWrites + 1
                 /\ \/ pc = "start" /\ ~fileExists
                    \/ PTT_MAC = <<>> /\ PTT_MAC' # <<>> /\ fileMac' = PTT_MAC' ]_vars
    /\ [](fileWrites <= 2)

\* C20 witness: config.ini was created at startup, a discovered address was
\* saved to it, and a later iteration resolved that address by the
\* configured branch.
C20_Witness ==
    /\ fileWrites = 2
    /\ PTT_MAC # <<>>
    /\ fileMac = PTT_MAC
    /\ ev.op = "find"
    /\ ev.how = "configured"
    /\ ev.result = PTT_MAC

\* C17: with handle_notify running on a context of the transport, its flag
\* test, key action and flag write interleaved with the session's release
\* paths, no two key-ups and no two key-downs are issued in a row, and the key
\* is down with button_pressed false only inside the press branch of the
\* running handler, between its key-down and its flag write.
C17_FlagAtomicAcrossContexts ==
    /\ keyUps <= keyDowns
    /\ keyDowns <= keyUps + 1
    /\ (keyHeld /\ ~button_pressed) => hnd = "setTrue"
    /\ (ev.op = "handler" /\ ev.step = "act" /\ ~ev.raised)
           => (ev.heldBefore <=> hnd = "setFalse")

====
